---- MODULE Spec2Model ----
(***************************************************************************)
(* A model of the Chirpy server (Archwyllt/local-server).                  *)
(*                                                                         *)
(* The source tree holds three successive builds of the server:            *)
(*   build 1  src/src/index.ts 521-680   hit counter and reset only        *)
(*   build 2  src/unnamed/part_001       users, login (caller-chosen       *)
(*                                       access-token lifetime), chirps    *)
(*   build 3  src/src/index.ts 1-519     refresh tokens, revoke, update,   *)
(*                                       get/delete chirp, webhook         *)
(* Init chooses the build that runs; a route exists only in the builds     *)
(* that register it.                                                       *)
(*                                                                         *)
(* A handler is an async function: it runs without interruption between    *)
(* two awaited store statements, and each store statement is one atomic    *)
(* step of the store.  An action of the model is one such segment: the     *)
(* synchronous code of the handler up to and including the store           *)
(* statement it awaits next (the synchronous code before a statement only  *)
(* reads the request, the configuration and the clock, and so commutes     *)
(* with every step of the other requests).                                  *)
(***************************************************************************)
EXTENDS Integers, Sequences, FiniteSets, TLC

(***************************************************************************)
(* Bounds of the model.                                                    *)
(***************************************************************************)
MaxReqs == 2
MaxTicks == 2
MaxPieces == 4
TicksPerSecond == 2

(***************************************************************************)
(* Program constants.  The clock of the model counts ticks, TicksPerSecond *)
(* to the second, where the program's Date.now() counts 1000 to the second.*)
(***************************************************************************)
ONE_HOUR == 3600
SIXTY_DAYS_IN_MS == 60 * 24 * 60 * 60 * TicksPerSecond
MaxChirpLength == 140

(***************************************************************************)
(* JavaScript values of request fields.  A field holds a string, or is     *)
(* absent (undefined), or holds a value of another type (a number).        *)
(***************************************************************************)
Undefined == "#undefined"
NonString == "#number"
Null == -1

IsString(v) == v \notin {Undefined, NonString}
Falsy(v) == v \in {Undefined, ""}
\* !x || typeof x !== "string"
InvalidField(v) == Falsy(v) \/ ~IsString(v)

(***************************************************************************)
(* Errors and the boundary translator.                                     *)
(***************************************************************************)
\* the translator that answers an uncategorized failure with its message
errorHandler_tellsAll(err) ==
  IF err.class = "BadRequestError" THEN [status |-> 400, error |-> err.message]
  ELSE IF err.class = "UnauthorizedError" THEN [status |-> 401, error |-> err.message]
  ELSE IF err.class = "ForbiddenError" THEN [status |-> 403, error |-> err.message]
  ELSE IF err.class = "NotFoundError" THEN [status |-> 404, error |-> err.message]
  ELSE [status |-> 500, error |-> err.message]

errorHandler(err) ==
  IF err.class = "BadRequestError" THEN [status |-> 400, error |-> err.message]
  ELSE IF err.class = "UnauthorizedError" THEN [status |-> 401, error |-> err.message]
  ELSE IF err.class = "ForbiddenError" THEN [status |-> 403, error |-> err.message]
  ELSE IF err.class = "NotFoundError" THEN [status |-> 404, error |-> err.message]
  ELSE [status |-> 500, error |-> "Something went wrong on our end"]

Err(class, message) == [class |-> class, message |-> message]
Ok(status) == [status |-> status, error |-> ""]
NoErr == [class |-> "", message |-> ""]

(***************************************************************************)
(* The deployment and the state.                                           *)
(***************************************************************************)
VARIABLES
  deploy,         \* [build, auth, onDelete]: which sources run, fixed at start
  config,         \* [platform, jwtSecret, polkaKey, fileserverHits]
  now,            \* the clock, in ticks
  ticks,          \* how often the clock has advanced
  users,          \* the users table
  chirps,         \* the chirps table
  refreshTokens,  \* the refresh_tokens table
  fresh,          \* how many random identifiers have been drawn
  started,        \* how many requests have been accepted
  inflight,       \* the handlers suspended at an await
  last,           \* the request answered last, with its response
  known,          \* the credentials clients have received in responses
  revoked,        \* history: the tokens a committed revoke named
  deleted,        \* history: the chirp ids whose DELETE answered 204
  lastPw,         \* history: <<user id, password>> as set last for each user
  sessions,       \* history: the refresh tokens the login responses returned
  codec           \* the functions of auth.ts called outside a request

vars == <<deploy, config, now, ticks, users, chirps, refreshTokens, fresh,
          started, inflight, last, known, revoked, deleted, lastPw, sessions,
          codec>>

(***************************************************************************)
(* Credentials.  An access token is a signed payload; a refresh token, an  *)
(* API key or any other header text is an opaque string.                   *)
(***************************************************************************)
Opaque(v) ==
  [kind |-> "opaque", v |-> v, iss |-> "", sub |-> "", iat |-> 0, exp |-> 0, key |-> ""]
NoCred == Opaque(Undefined)

\* the issuance under another issuer name
makeJWT_otherIssuer(userID, expiresIn, secret) ==
  LET iat == now \div TicksPerSecond
      exp == iat + expiresIn
  IN [kind |-> "jwt", v |-> "", iss |-> "polka", sub |-> userID,
      iat |-> iat, exp |-> exp, key |-> secret]

\* src/src/auth.ts makeJWT: iat = floor(Date.now() / 1000), exp = iat + expiresIn
makeJWT(userID, expiresIn, secret) ==
  LET iat == now \div TicksPerSecond
      exp == iat + expiresIn
  IN [kind |-> "jwt", v |-> "", iss |-> "chirpy", sub |-> userID,
      iat |-> iat, exp |-> exp, key |-> secret]

\* jsonwebtoken's verify with ignoreExpiration
jwtVerify_ignoreExpiration(tokenString, secret) ==
  /\ tokenString.kind = "jwt"
  /\ tokenString.key = secret

\* jsonwebtoken's verify: the text is a token, the signature is of this
\* secret, and the clock second is before exp.
jwtVerify(tokenString, secret) ==
  /\ tokenString.kind = "jwt"
  /\ tokenString.key = secret
  /\ (now \div TicksPerSecond) < tokenString.exp

\* The failure the two versions of auth.ts raise: UnauthorizedError in
\* lines 1-120, a plain Error in lines 122-205.
AuthErr(message) ==
  IF deploy.auth = "typed" THEN Err("UnauthorizedError", message)
  ELSE Err("Error", message)

\* a verification that does not look at the signature
validateJWT_anyKey(tokenString, secret) ==
  IF ~(tokenString.kind = "jwt" /\ (now \div TicksPerSecond) < tokenString.exp)
    THEN [ok |-> FALSE, sub |-> Undefined,
          err |-> AuthErr("Invalid or expired token")]
  ELSE IF InvalidField(tokenString.sub)
    THEN [ok |-> FALSE, sub |-> Undefined,
          err |-> AuthErr("Invalid or expired token")]
  ELSE [ok |-> TRUE, sub |-> tokenString.sub, err |-> NoErr]

\* a verification that also asks the refresh_tokens table: no row of the
\* subject may be revoked
validateJWT_whileSessionLive(tokenString, secret) ==
  IF \/ ~jwtVerify(tokenString, secret)
     \/ \E r \in refreshTokens : r.userId = tokenString.sub /\ r.revokedAt # Null
    THEN [ok |-> FALSE, sub |-> Undefined,
          err |-> AuthErr("Invalid or expired token")]
  ELSE IF InvalidField(tokenString.sub)
    THEN [ok |-> FALSE, sub |-> Undefined,
          err |-> AuthErr("Invalid or expired token")]
  ELSE [ok |-> TRUE, sub |-> tokenString.sub, err |-> NoErr]

validateJWT(tokenString, secret) ==
  IF ~jwtVerify(tokenString, secret)
    THEN [ok |-> FALSE, sub |-> Undefined,
          err |-> AuthErr("Invalid or expired token")]
  ELSE IF InvalidField(tokenString.sub)
    THEN [ok |-> FALSE, sub |-> Undefined,
          err |-> IF deploy.auth = "typed"
                    THEN Err("UnauthorizedError", "Invalid or expired token")
                    ELSE Err("Error", "Invalid token: missing or invalid subject")]
  ELSE [ok |-> TRUE, sub |-> tokenString.sub, err |-> NoErr]

(***************************************************************************)
(* The Authorization header: its text is a sequence of pieces, each the    *)
(* single space " " or a text without a space; the piece "CRED" stands for *)
(* the text of the credential the header carries.  No header, or an empty  *)
(* one, is the empty sequence.                                             *)
(***************************************************************************)
RECURSIVE Split(_)
\* String.prototype.split(" ")
Split(s) ==
  IF s = <<>> THEN << <<>> >>
  ELSE LET rest == Split(Tail(s))
       IN IF Head(s) = " " THEN << <<>> >> \o rest
          ELSE << <<Head(s)>> \o Head(rest) >> \o Tail(rest)

PartValue(part, cred) ==
  IF part = <<"CRED">> THEN cred
  ELSE IF part = <<>> THEN Opaque("")
  ELSE Opaque(part[1])

\* the extraction that looks at the first two parts and not at their number
getHeaderCredential_firstTwoParts(authHeader, scheme) ==
  IF authHeader.text = <<>>
    THEN [ok |-> FALSE, value |-> NoCred, err |-> AuthErr("Authorization header missing")]
  ELSE LET parts == Split(authHeader.text)
       IN IF Len(parts) < 2 \/ parts[1] # <<scheme>>
            THEN [ok |-> FALSE, value |-> NoCred,
                  err |-> AuthErr("Invalid Authorization header format")]
          ELSE [ok |-> TRUE, value |-> PartValue(parts[2], authHeader.cred), err |-> NoErr]

getHeaderCredential(authHeader, scheme) ==
  IF authHeader.text = <<>>
    THEN [ok |-> FALSE, value |-> NoCred, err |-> AuthErr("Authorization header missing")]
  ELSE LET parts == Split(authHeader.text)
       IN IF Len(parts) # 2 \/ parts[1] # <<scheme>>
            THEN [ok |-> FALSE, value |-> NoCred,
                  err |-> AuthErr("Invalid Authorization header format")]
          ELSE [ok |-> TRUE, value |-> PartValue(parts[2], authHeader.cred), err |-> NoErr]

\* the extraction that takes the credential of an ApiKey header too
getBearerToken_anyScheme(authHeader) ==
  IF getHeaderCredential(authHeader, "Bearer").ok
    THEN getHeaderCredential(authHeader, "Bearer")
  ELSE getHeaderCredential(authHeader, "ApiKey")

\* the extraction with one message for every refused header
getBearerToken_oneMessage(authHeader) ==
  LET r == getHeaderCredential(authHeader, "Bearer")
  IN IF r.ok THEN r
     ELSE [r EXCEPT !.err = AuthErr("Invalid Authorization header format")]

getBearerToken(authHeader) == getHeaderCredential(authHeader, "Bearer")

\* the extraction that takes the credential of a Bearer header too
getAPIKey_anyScheme(authHeader) ==
  IF getHeaderCredential(authHeader, "ApiKey").ok
    THEN getHeaderCredential(authHeader, "ApiKey")
  ELSE getHeaderCredential(authHeader, "Bearer")

getAPIKey(authHeader) == getHeaderCredential(authHeader, "ApiKey")

(***************************************************************************)
(* Passwords: argon2 embeds a random salt in the hash and verifies a       *)
(* password against the hash of the same password only.                    *)
(***************************************************************************)
hashPassword(password, salt) == [alg |-> "argon2id", salt |-> salt, digest |-> password]

checkPasswordHash(password, hash) == hash.digest = password

(***************************************************************************)
(* Random identifiers: the n-th identifier drawn is the n-th of its pool   *)
(* (a UUID or 32 random bytes never repeats).                              *)
(***************************************************************************)
UserIdPool == <<"u1", "u2", "u3", "u4", "u5", "u6", "u7", "u8">>
ChirpIdPool == <<"c1", "c2", "c3", "c4", "c5", "c6", "c7", "c8">>
TokenPool == <<"r1", "r2", "r3", "r4", "r5", "r6", "r7", "r8">>

SaltPool == <<"s1", "s2", "s3", "s4", "s5", "s6", "s7", "s8">>

makeRefreshToken == TokenPool[fresh + 1]
randomSalt == SaltPool[fresh + 1]

(***************************************************************************)
(* The store: src/src/db/queries.  A query yields the set of rows it       *)
(* returns, of which the handlers take the first or find none.  A row has  *)
(* the columns the sources write or compare; the creation stamps, which    *)
(* the store sets by itself and the handlers only copy into responses, are *)
(* left out, and so is the updated-at stamp of a chirp, never written.     *)
(***************************************************************************)
UserExists(userId) == \E u \in users : u.id = userId

\* the insert into a table without the unique email: no conflict ever
createUser_noUniqueEmail(email, hashedPassword) ==
  {[id |-> UserIdPool[fresh + 1], email |-> email,
    hashedPassword |-> hashedPassword, isChirpyRed |-> FALSE,
    updatedAt |-> now]}

\* insert ... onConflictDoNothing().returning(): the email is unique
createUser(email, hashedPassword) ==
  IF \E u \in users : u.email = email THEN {}
  ELSE {[id |-> UserIdPool[fresh + 1], email |-> email,
         hashedPassword |-> hashedPassword, isChirpyRed |-> FALSE,
         updatedAt |-> now]}

getUserByEmail(email) == {u \in users : u.email = email}

\* the update that leaves the password hash as it was
updateUser_keepsPassword(userId, email, hashedPassword) ==
  {[u EXCEPT !.email = email, !.updatedAt = now]
     : u \in {x \in users : x.id = userId}}

\* the update that writes the row anew, the tier flag at its default
updateUser_resetsTier(userId, email, hashedPassword) ==
  {[u EXCEPT !.email = email, !.hashedPassword = hashedPassword,
             !.isChirpyRed = FALSE, !.updatedAt = now]
     : u \in {x \in users : x.id = userId}}

\* update ... set email, hashedPassword, updatedAt where id = userId
updateUser(userId, email, hashedPassword) ==
  {[u EXCEPT !.email = email, !.hashedPassword = hashedPassword, !.updatedAt = now]
     : u \in {x \in users : x.id = userId}}

\* the update fails when another user holds the email
updateUserConflict(userId, email) ==
  /\ UserExists(userId)
  /\ \E u \in users : u.id # userId /\ u.email = email

\* the insert that stamps revoked_at at once
createRefreshToken_bornRevoked(token, userId, expiresAt, revokedAt) ==
  [token |-> token, userId |-> userId, expiresAt |-> expiresAt,
   revokedAt |-> now, updatedAt |-> now]

createRefreshToken(token, userId, expiresAt, revokedAt) ==
  [token |-> token, userId |-> userId, expiresAt |-> expiresAt,
   revokedAt |-> revokedAt, updatedAt |-> now]

\* the lookup without its test of expires_at
getUserFromRefreshToken_ignoresExpiry(token) ==
  {u \in users : \E r \in refreshTokens :
      /\ r.userId = u.id
      /\ token.kind = "opaque" /\ r.token = token.v
      /\ r.revokedAt = Null}

\* refresh_tokens inner join users where token = ? and revoked_at is null
\* and expires_at > new Date()
getUserFromRefreshToken(token) ==
  {u \in users : \E r \in refreshTokens :
      /\ r.userId = u.id
      /\ token.kind = "opaque" /\ r.token = token.v
      /\ r.revokedAt = Null
      /\ r.expiresAt > now}

\* the update that stamps updated_at only
revokeRefreshToken_keepsUsable(token) ==
  {IF token.kind = "opaque" /\ r.token = token.v
     THEN [r EXCEPT !.updatedAt = now]
     ELSE r : r \in refreshTokens}

\* update refresh_tokens set revoked_at, updated_at where token = ?
revokeRefreshToken(token) ==
  {IF token.kind = "opaque" /\ r.token = token.v
     THEN [r EXCEPT !.revokedAt = now, !.updatedAt = now]
     ELSE r : r \in refreshTokens}

\* the insert that takes the author from elsewhere than the caller
createChirp_ofFirstUser(body, userId) ==
  [id |-> ChirpIdPool[fresh + 1], body |-> body, userId |-> UserIdPool[1]]

createChirp(body, userId) ==
  [id |-> ChirpIdPool[fresh + 1], body |-> body, userId |-> userId]

getChirpById(chirpId) == {c \in chirps : c.id = chirpId}

\* the delete that matches no row
deleteChirp_keepsRow(chirpId) == chirps

deleteChirp(chirpId) == {c \in chirps : c.id # chirpId}

\* upgradeUserToChirpyRed is imported by index.ts from users.js and is not
\* in the sources: set the tier flag of the user with this id.
upgradeUserToChirpyRed(userId) ==
  {[u EXCEPT !.isChirpyRed = TRUE] : u \in {x \in users : x.id = userId}}

\* delete from users: a row of chirps or refresh_tokens that refers to a
\* user either goes with it (on delete cascade) or makes the delete fail.
deleteAllUsersFails ==
  /\ deploy.onDelete = "no action"
  /\ \/ \E c \in chirps : UserExists(c.userId)
     \/ \E r \in refreshTokens : UserExists(r.userId)

(***************************************************************************)
(* Requests: the header and the JSON body a client sends.                  *)
(***************************************************************************)
ExpAbsent == [t |-> "undefined", n |-> 0]
ExpString == [t |-> "string", n |-> 0]
ExpNumber(n) == [t |-> "number", n |-> n]

\* json: whether JSON.parse yields an object
EmptyBody ==
  [json |-> TRUE, email |-> Undefined, password |-> Undefined,
   expiresInSeconds |-> ExpAbsent, body |-> Undefined, event |-> Undefined,
   userId |-> Undefined]
MalformedBody == [EmptyBody EXCEPT !.json = FALSE]

Emails == {"a@x.com", "b@x.com"}
Passwords == {"pw1", "pw2"}
BadFields == {Undefined, NonString, ""}

CredentialBodies ==
  {[EmptyBody EXCEPT !.email = e, !.password = p] : e \in Emails, p \in Passwords}
  \cup {[EmptyBody EXCEPT !.email = x, !.password = "pw1"] : x \in BadFields}
  \cup {[EmptyBody EXCEPT !.email = "a@x.com", !.password = x] : x \in BadFields}
  \cup {MalformedBody}

LoginBodies ==
  IF deploy.build = 2
    THEN CredentialBodies
         \cup {[EmptyBody EXCEPT !.email = "a@x.com", !.password = "pw1",
                                 !.expiresInSeconds = x]
                 : x \in {ExpString, ExpNumber(60), ExpNumber(-60),
                          ExpNumber(2 * ONE_HOUR)}}
    ELSE CredentialBodies

ChirpTexts == {"hello", "Sharbert", "#long"}
ChirpBodies ==
  {[EmptyBody EXCEPT !.body = t] : t \in ChirpTexts \cup BadFields}
  \cup {MalformedBody}

\* the length of a chirp text: "#long" stands for a text of 141 characters
TextLength(t) == IF t = "#long" THEN MaxChirpLength + 1 ELSE 5

toLowerCase(word) == IF word = "Sharbert" THEN "sharbert" ELSE word
\* the texts of the model are single words
cleanProfanity(text) ==
  IF toLowerCase(text) \in {"kerfuffle", "sharbert", "fornax"} THEN "****" ELSE text

DrawnUserIds == {UserIdPool[i] : i \in 1..fresh}
DrawnChirpIds == {ChirpIdPool[i] : i \in 1..fresh}

WebhookBodies ==
  {[EmptyBody EXCEPT !.event = "user.upgraded", !.userId = u]
     : u \in {x.id : x \in users} \cup {"u0"} \cup BadFields}
  \cup {[EmptyBody EXCEPT !.event = e, !.userId = "u1"]
     : e \in {"user.downgraded", Undefined}}
  \cup {MalformedBody}

NoHeader == [text |-> <<>>, cred |-> NoCred]
SecretOfAttacker == "guessed"
ForgedJWT ==
  [kind |-> "jwt", v |-> "", iss |-> "chirpy", sub |-> "u1",
   iat |-> 0, exp |-> ONE_HOUR, key |-> SecretOfAttacker]

\* What a client may put in a header: what responses gave it, the API key
\* it was configured with, a token it signed itself, or any other text.
AccessCredentials == {c \in known : c.kind = "jwt"} \cup {ForgedJWT, Opaque("bogus")}
RefreshCredentials == {c \in known : c.kind = "opaque"} \cup {ForgedJWT, Opaque("bogus")}
ApiKeyCredentials == {Opaque(config.polkaKey), Opaque("bogus")}

WellFormed(scheme, credentials) ==
  {[text |-> <<scheme, " ", "CRED">>, cred |-> c] : c \in credentials}
OtherHeaders(scheme) ==
  {[text |-> t, cred |-> NoCred]
     : t \in {<<>>, <<scheme>>, <<scheme, " ">>, <<scheme, " ", " ", "x">>,
              <<scheme, " ", "x", " ", "y">>}}
  \cup {[text |-> <<"CRED">>, cred |-> Opaque("bogus")]}
AccessHeaders ==
  WellFormed("Bearer", AccessCredentials) \cup OtherHeaders("Bearer")
  \cup {[text |-> <<"ApiKey", " ", "CRED">>, cred |-> c] : c \in AccessCredentials}
RefreshHeaders ==
  WellFormed("Bearer", RefreshCredentials) \cup OtherHeaders("Bearer")
  \cup {[text |-> <<"ApiKey", " ", "CRED">>, cred |-> c] : c \in RefreshCredentials}
ApiKeyHeaders ==
  WellFormed("ApiKey", ApiKeyCredentials) \cup OtherHeaders("ApiKey")
  \cup {[text |-> <<"Bearer", " ", "CRED">>, cred |-> c] : c \in ApiKeyCredentials}

\* Each body is sent with each header that carries a token this server
\* signed; with every other header, one well-formed and one malformed body.
Authentic(header) ==
  /\ header.text = <<"Bearer", " ", "CRED">>
  /\ header.cred.kind = "jwt"
  /\ header.cred.key = config.jwtSecret
BodiesWith(header, bodies, probes) == IF Authentic(header) THEN bodies ELSE probes

(***************************************************************************)
(* The suspended handlers and the last response.                           *)
(***************************************************************************)
NoUser ==
  [id |-> "", email |-> "", hashedPassword |-> hashPassword("", "s1"),
   isChirpyRed |-> FALSE, updatedAt |-> 0]

NoRequest ==
  [seq |-> 0, kind |-> "none", pc |-> "", at |-> 0, header |-> NoHeader,
   cred |-> NoCred, body |-> EmptyBody,
   user |-> NoUser, accessToken |-> NoCred, refreshToken |-> "", expiresAt |-> 0,
   userId |-> "", chirpId |-> "", late |-> FALSE,
   snapUsers |-> {}, snapChirps |-> {}, snapTokens |-> {}]

\* header, body: the Authorization header and the body of the request; cred:
\* the credential the handler took from the header (NoCred when it took
\* none); status, error: the response; user, token, refreshToken: the body of
\* the response; late: the request came after its token was revoked or its
\* chirp deleted; snapUsers, snapChirps, snapTokens: the rows stored when a
\* reset began
NoLast ==
  [seq |-> 0, kind |-> "none", status |-> 0, error |-> "", header |-> NoHeader,
   cred |-> NoCred, body |-> EmptyBody, user |-> NoUser, token |-> NoCred,
   refreshToken |-> "", userId |-> "", chirpId |-> "", late |-> FALSE,
   snapUsers |-> {}, snapChirps |-> {}, snapTokens |-> {}]

Answer(seq, kind, header, cred, body, resp) ==
  [NoLast EXCEPT !.seq = seq, !.kind = kind, !.header = header, !.cred = cred,
                 !.body = body, !.status = resp.status, !.error = resp.error]

Thrown(err) == errorHandler(err)
SyntaxError == Err("SyntaxError", "Unexpected token in JSON")
TypeError == Err("TypeError", "Cannot read properties of undefined")
StoreError == Err("PostgresError", "constraint violation")

(***************************************************************************)
(* Init: the process starts with the hit counter at 0 and no request in    *)
(* progress, on a store that is empty or holds what earlier requests left: *)
(* two registered users who have logged in, and a chirp of the first.      *)
(***************************************************************************)
SeedUsers ==
  {[id |-> "u1", email |-> "a@x.com", hashedPassword |-> hashPassword("pw1", "s1"),
    isChirpyRed |-> FALSE, updatedAt |-> 0],
   [id |-> "u2", email |-> "b@x.com", hashedPassword |-> hashPassword("pw2", "s2"),
    isChirpyRed |-> FALSE, updatedAt |-> 0]}
SeedChirps ==
  {[id |-> "c1", body |-> "hello", userId |-> "u1"]}
SeedTokens ==
  {[token |-> "r1", userId |-> "u1", expiresAt |-> SIXTY_DAYS_IN_MS,
    revokedAt |-> Null, updatedAt |-> 0],
   [token |-> "r2", userId |-> "u2", expiresAt |-> SIXTY_DAYS_IN_MS,
    revokedAt |-> Null, updatedAt |-> 0]}
SeedJWT(sub, secret) ==
  [kind |-> "jwt", v |-> "", iss |-> "chirpy", sub |-> sub,
   iat |-> 0, exp |-> ONE_HOUR, key |-> secret]
SeedSessions ==
  {[token |-> "r1", userId |-> "u1", at |-> 0,
    accessToken |-> SeedJWT("u1", config.jwtSecret)],
   [token |-> "r2", userId |-> "u2", at |-> 0,
    accessToken |-> SeedJWT("u2", config.jwtSecret)]}

Deployments ==
  {[build |-> 1, auth |-> "typed", onDelete |-> "cascade"]}
  \cup {[build |-> 2, auth |-> a, onDelete |-> d]
          : a \in {"typed", "plain"}, d \in {"cascade", "no action"}}
  \cup {[build |-> 3, auth |-> "typed", onDelete |-> d]
          : d \in {"cascade", "no action"}}

\* makeJWT and validateJWT as functions: the arguments of makeJWT, the
\* token it returned, the arguments of validateJWT and what it returned or
\* threw, with the status errorHandler gives the thrown error
NoResult == [ok |-> FALSE, sub |-> Undefined, err |-> NoErr]
NoCodec ==
  [pc |-> "off", userID |-> "", expiresIn |-> 0, secret |-> "", iat |-> 0,
   made |-> NoCred, tokenString |-> NoCred, verifySecret |-> "", verifiedAt |-> 0,
   result |-> NoResult, status |-> 0,
   authHeader |-> NoHeader, called |-> {},
   thrown |-> NoErr, response |-> Ok(0),
   bearer |-> [ok |-> FALSE, value |-> NoCred, err |-> NoErr],
   apiKey |-> [ok |-> FALSE, value |-> NoCred, err |-> NoErr]]
CodecSubjects == {"u1", "u2", ""}
CodecLifetimes == {-1, 0, 1, 60, ONE_HOUR}
CodecSecrets == {"jwt-secret", "other-secret"}
CodecInputs ==
  {[NoCodec EXCEPT !.pc = "makeJWT", !.userID = u, !.expiresIn = e, !.secret = s]
     : u \in CodecSubjects, e \in CodecLifetimes, s \in CodecSecrets}

\* getBearerToken and getAPIKey as functions: every Authorization header of
\* at most MaxPieces pieces
HeaderPieces == {"Bearer", "ApiKey", " ", "CRED", "x"}
HeaderTexts == UNION {[1..n -> HeaderPieces] : n \in 0..MaxPieces}
HeaderInputs ==
  {[NoCodec EXCEPT !.pc = "header",
                   !.authHeader = [text |-> t, cred |-> Opaque("tok")]]
     : t \in HeaderTexts}

\* errorHandler as a function: the four classes of errors.ts and what else
\* a handler throws (a plain Error, JSON.parse's SyntaxError, a TypeError,
\* an error of the store), each with several messages
ErrorClasses ==
  {"BadRequestError", "UnauthorizedError", "ForbiddenError", "NotFoundError"}
OtherClasses == {"Error", "SyntaxError", "TypeError", "PostgresError"}
ErrorMessages ==
  {"", "Invalid email", "Incorrect email or password",
   "duplicate key value violates unique constraint users_email_unique"}
ErrorInputs ==
  {[NoCodec EXCEPT !.pc = "error", !.thrown = Err(c, m)]
     : c \in ErrorClasses \cup OtherClasses, m \in ErrorMessages}

InitServer ==
  /\ deploy \in Deployments
  /\ config \in {[platform |-> p, jwtSecret |-> "jwt-secret", polkaKey |-> "f271c8",
                  fileserverHits |-> 0] : p \in {"dev", "production"}}
  /\ now = 0
  /\ ticks = 0
  /\ started = 0
  /\ inflight = {}
  /\ last = NoLast
  /\ revoked = {}
  /\ deleted = {}
  /\ \E seeded \in BOOLEAN :
       IF seeded /\ deploy.build # 1
         THEN /\ users = SeedUsers
              /\ chirps = SeedChirps
              /\ refreshTokens = IF deploy.build = 3 THEN SeedTokens ELSE {}
              /\ fresh = 2
              /\ known = {SeedJWT("u1", config.jwtSecret), SeedJWT("u2", config.jwtSecret)}
                         \cup (IF deploy.build = 3
                                 THEN {Opaque("r1"), Opaque("r2")} ELSE {})
              /\ lastPw = {<<"u1", "pw1">>, <<"u2", "pw2">>}
              /\ sessions = IF deploy.build = 3 THEN SeedSessions ELSE {}
         ELSE /\ users = {}
              /\ chirps = {}
              /\ refreshTokens = {}
              /\ fresh = 0
              /\ known = {}
              /\ lastPw = {}
              /\ sessions = {}

Init == InitServer /\ codec = NoCodec

(***************************************************************************)
(* The actions.                                                            *)
(***************************************************************************)
Accept == started < MaxReqs /\ started' = started + 1
ThisSeq == started + 1

\* the clock advances by a tick, an hour or sixty days
Tick ==
  /\ ticks < MaxTicks
  /\ ticks' = ticks + 1
  /\ \E d \in {1, ONE_HOUR * TicksPerSecond, SIXTY_DAYS_IN_MS} : now' = now + d
  /\ UNCHANGED <<codec, deploy, config, users, chirps, refreshTokens, fresh, started,
                 inflight, last, known, revoked, deleted, lastPw, sessions>>

\* GET /app/...: middlewareMetricsInc
middlewareMetricsInc ==
  /\ Accept
  /\ config' = [config EXCEPT !.fileserverHits = @ + 1]
  /\ last' = Answer(ThisSeq, "app", NoHeader, NoCred, EmptyBody, Ok(200))
  /\ UNCHANGED <<codec, deploy, now, ticks, users, chirps, refreshTokens, fresh,
                 inflight, known, revoked, deleted, lastPw, sessions>>

\* POST /api/users
handlerCreateUser ==
  /\ deploy.build \in {2, 3}
  /\ Accept
  /\ \E body \in CredentialBodies :
       LET created == createUser(body.email, hashPassword(body.password, randomSalt))
           resp == IF ~body.json THEN Thrown(SyntaxError)
                   ELSE IF InvalidField(body.email)
                     THEN Thrown(Err("BadRequestError", "Invalid email"))
                   ELSE IF InvalidField(body.password)
                     THEN Thrown(Err("BadRequestError", "Invalid password"))
                   ELSE IF created = {}
                     THEN Thrown(Err("BadRequestError", "User with this email already exists"))
                   ELSE Ok(201)
       IN /\ IF resp.status = 201
               THEN /\ users' = users \cup created
                    /\ fresh' = fresh + 1
                    /\ lastPw' = lastPw \cup {<<u.id, body.password>> : u \in created}
                    /\ last' = [Answer(ThisSeq, "createUser", NoHeader, NoCred, body, resp)
                                  EXCEPT !.user = CHOOSE u \in created : TRUE]
               ELSE /\ UNCHANGED <<users, fresh, lastPw>>
                    /\ last' = Answer(ThisSeq, "createUser", NoHeader, NoCred, body, resp)
  /\ UNCHANGED <<codec, deploy, config, now, ticks, chirps, refreshTokens, inflight,
                 known, revoked, deleted, sessions>>

\* an update of the credentials that revokes the refresh tokens of the user
tokensAfterUpdate_revoked(userId) ==
  {IF r.userId = userId THEN [r EXCEPT !.revokedAt = now, !.updatedAt = now] ELSE r
     : r \in refreshTokens}

\* refresh_tokens after handlerUpdateUser: its one store statement is the
\* update of the users row
tokensAfterUpdate(userId) == refreshTokens

\* PUT /api/users
handlerUpdateUser ==
  /\ deploy.build = 3
  /\ Accept
  /\ \E header \in AccessHeaders :
     \E body \in BodiesWith(header, CredentialBodies,
                            {[EmptyBody EXCEPT !.email = "a@x.com", !.password = "pw1"],
                             MalformedBody}) :
       LET token == getBearerToken(header)
           userId == validateJWT(token.value, config.jwtSecret)
           updated == updateUser(userId.sub, body.email, hashPassword(body.password, randomSalt))
           resp == IF ~token.ok THEN Thrown(token.err)
                   ELSE IF ~userId.ok THEN Thrown(userId.err)
                   ELSE IF ~body.json THEN Thrown(SyntaxError)
                   ELSE IF InvalidField(body.email)
                     THEN Thrown(Err("BadRequestError", "Invalid email"))
                   ELSE IF InvalidField(body.password)
                     THEN Thrown(Err("BadRequestError", "Invalid password"))
                   ELSE IF updateUserConflict(userId.sub, body.email)
                     THEN Thrown(StoreError)
                   ELSE IF updated = {} THEN Thrown(TypeError)
                   ELSE Ok(200)
       IN /\ refreshTokens' = tokensAfterUpdate(userId.sub)
          /\ IF resp.status = 200
               THEN /\ users' = {u \in users : u.id # userId.sub} \cup updated
                    /\ fresh' = fresh + 1
                    /\ lastPw' = {x \in lastPw : x[1] # userId.sub}
                                   \cup {<<userId.sub, body.password>>}
                    /\ last' = [Answer(ThisSeq, "updateUser", header, token.value, body, resp)
                                  EXCEPT !.user = CHOOSE u \in updated : TRUE,
                                         !.userId = userId.sub]
               ELSE /\ UNCHANGED <<users, fresh, lastPw>>
                    /\ last' = [Answer(ThisSeq, "updateUser", header, token.value, body, resp)
                                  EXCEPT !.userId = userId.sub]
  /\ UNCHANGED <<codec, deploy, config, now, ticks, chirps,
                 inflight, known, revoked, deleted, sessions>>

\* the checks with an answer of their own for an email nobody registered
loginCheck_tellsUnregistered(body) ==
  LET found == getUserByEmail(body.email)
      rejected == Err("UnauthorizedError", "Incorrect email or password")
  IN IF InvalidField(body.email) \/ InvalidField(body.password) THEN rejected
     ELSE IF found = {} THEN Err("NotFoundError", "User not found")
     ELSE IF ~checkPasswordHash(body.password, (CHOOSE u \in found : TRUE).hashedPassword)
       THEN rejected
     ELSE NoErr

\* The credential checks of POST /api/login, the same in builds 2 and 3:
\* the error they throw, NoErr when they pass.
loginCheck(body) ==
  LET found == getUserByEmail(body.email)
      rejected == Err("UnauthorizedError", "Incorrect email or password")
  IN IF InvalidField(body.email) \/ InvalidField(body.password) THEN rejected
     ELSE IF found = {} THEN rejected
     ELSE IF ~checkPasswordHash(body.password, (CHOOSE u \in found : TRUE).hashedPassword)
       THEN rejected
     ELSE NoErr

\* POST /api/login, build 2: the caller may shorten the token's lifetime
\* src/unnamed/part_001 lines 189-197 without the Math.min
expiresInSeconds_unclamped(requested) ==
  IF requested.t = "undefined" THEN ONE_HOUR ELSE requested.n

\* src/unnamed/part_001 lines 189-197: let expiresIn = ONE_HOUR, and
\* Math.min(parsedBody.expiresInSeconds, ONE_HOUR) when the field is there
expiresInSeconds(requested) ==
  IF requested.t = "undefined" THEN ONE_HOUR
  ELSE IF requested.n < ONE_HOUR THEN requested.n ELSE ONE_HOUR

handlerLoginV2 ==
  /\ deploy.build = 2
  /\ Accept
  /\ \E body \in LoginBodies :
       LET user == CHOOSE u \in getUserByEmail(body.email) : TRUE
           requested == body.expiresInSeconds
           expiresIn == expiresInSeconds(requested)
           token == makeJWT(user.id, expiresIn, config.jwtSecret)
           resp == IF ~body.json THEN Thrown(SyntaxError)
                   ELSE IF loginCheck(body) # NoErr THEN Thrown(loginCheck(body))
                   ELSE IF requested.t \notin {"undefined", "number"}
                     THEN Thrown(Err("BadRequestError", "Invalid expiresInSeconds"))
                   ELSE Ok(200)
       IN IF resp.status = 200
            THEN /\ known' = known \cup {token}
                 /\ last' = [Answer(ThisSeq, "login", NoHeader, NoCred, body, resp)
                               EXCEPT !.user = user, !.token = token, !.userId = user.id]
            ELSE /\ UNCHANGED known
                 /\ last' = Answer(ThisSeq, "login", NoHeader, NoCred, body, resp)
  /\ UNCHANGED <<codec, deploy, config, now, ticks, users, chirps, refreshTokens, fresh,
                 inflight, revoked, deleted, lastPw, sessions>>

\* POST /api/login, build 3, to the await of createRefreshToken
handlerLogin ==
  /\ deploy.build = 3
  /\ Accept
  /\ \E body \in LoginBodies :
       LET user == CHOOSE u \in getUserByEmail(body.email) : TRUE
           resp == IF ~body.json THEN Thrown(SyntaxError)
                   ELSE IF loginCheck(body) # NoErr THEN Thrown(loginCheck(body))
                   ELSE Ok(200)
       IN IF resp.status = 200
            THEN /\ inflight' = inflight \cup
                      {[NoRequest EXCEPT
                          !.seq = ThisSeq, !.kind = "login", !.pc = "createRefreshToken",
                          !.at = now,
                          !.body = body, !.user = user, !.userId = user.id,
                          !.accessToken = makeJWT(user.id, ONE_HOUR, config.jwtSecret),
                          !.refreshToken = makeRefreshToken,
                          !.expiresAt = now + SIXTY_DAYS_IN_MS]}
                 /\ fresh' = fresh + 1
                 /\ UNCHANGED last
            ELSE /\ last' = Answer(ThisSeq, "login", NoHeader, NoCred, body, resp)
                 /\ UNCHANGED <<inflight, fresh>>
  /\ UNCHANGED <<codec, deploy, config, now, ticks, users, chirps, refreshTokens,
                 known, revoked, deleted, lastPw, sessions>>

\* a store whose answer to the awaited query never comes
Settled_never(r) == FALSE

\* the promise a suspended handler awaits is settled: the store has answered
Settled(r) == r \in inflight

\* ... and from the insert of the refresh token to the response
handlerLoginInsert ==
  \E r \in inflight :
    /\ r.kind = "login" /\ r.pc = "createRefreshToken"
    /\ Settled(r)
    /\ inflight' = inflight \ {r}
    /\ IF UserExists(r.user.id)
         THEN /\ refreshTokens' = refreshTokens \cup
                   {createRefreshToken(r.refreshToken, r.user.id, r.expiresAt, Null)}
              /\ known' = known \cup {r.accessToken, Opaque(r.refreshToken)}
              /\ sessions' = sessions \cup
                   {[token |-> r.refreshToken, userId |-> r.user.id, at |-> r.at,
                     accessToken |-> r.accessToken]}
              /\ last' = [Answer(r.seq, "login", NoHeader, NoCred, r.body, Ok(200))
                            EXCEPT !.user = r.user, !.token = r.accessToken,
                                   !.refreshToken = r.refreshToken,
                                   !.userId = r.user.id]
         ELSE \* the row refers to a user that is gone: the insert fails
              /\ UNCHANGED <<refreshTokens, known, sessions>>
              /\ last' = [Answer(r.seq, "login", NoHeader, NoCred, r.body, Thrown(StoreError))
                            EXCEPT !.userId = r.user.id]
    /\ UNCHANGED <<codec, deploy, config, now, ticks, users, chirps, fresh, started,
                   revoked, deleted, lastPw>>

\* a refresh that spends the token it redeems
tokensAfterRefresh_spent(token) == revokeRefreshToken(token)

\* refresh_tokens after handlerRefresh: its one store statement is the
\* select of getUserFromRefreshToken
tokensAfterRefresh(token) == refreshTokens

\* POST /api/refresh
handlerRefresh ==
  /\ deploy.build = 3
  /\ Accept
  /\ \E header \in RefreshHeaders :
       LET refreshToken == getBearerToken(header)
           found == getUserFromRefreshToken(refreshToken.value)
           user == CHOOSE u \in found : TRUE
           accessToken == makeJWT(user.id, ONE_HOUR, config.jwtSecret)
           resp == IF ~refreshToken.ok THEN Thrown(refreshToken.err)
                   ELSE IF found = {}
                     THEN Thrown(Err("UnauthorizedError", "Invalid or expired refresh token"))
                   ELSE Ok(200)
       IN /\ refreshTokens' = tokensAfterRefresh(refreshToken.value)
          /\ IF resp.status = 200
               THEN /\ known' = known \cup {accessToken}
                    /\ last' = [Answer(ThisSeq, "refresh", header, refreshToken.value, EmptyBody, resp)
                                  EXCEPT !.token = accessToken, !.userId = user.id,
                                         !.late = refreshToken.value \in revoked]
               ELSE /\ UNCHANGED known
                    /\ last' = [Answer(ThisSeq, "refresh", header, refreshToken.value, EmptyBody, resp)
                                  EXCEPT !.late = refreshToken.value \in revoked]
  /\ UNCHANGED <<codec, deploy, config, now, ticks, users, chirps, fresh,
                 inflight, revoked, deleted, lastPw, sessions>>

\* POST /api/revoke
handlerRevoke ==
  /\ deploy.build = 3
  /\ Accept
  /\ \E header \in RefreshHeaders :
       LET refreshToken == getBearerToken(header)
       IN IF ~refreshToken.ok
            THEN /\ last' = Answer(ThisSeq, "revoke", header, refreshToken.value, EmptyBody, Thrown(refreshToken.err))
                 /\ UNCHANGED <<refreshTokens, revoked>>
            ELSE /\ refreshTokens' = revokeRefreshToken(refreshToken.value)
                 /\ revoked' = revoked \cup {refreshToken.value}
                 /\ last' = Answer(ThisSeq, "revoke", header, refreshToken.value, EmptyBody, Ok(204))
  /\ UNCHANGED <<codec, deploy, config, now, ticks, users, chirps, fresh, inflight,
                 known, deleted, lastPw, sessions>>

\* POST /api/chirps
handlerCreateChirp ==
  /\ deploy.build \in {2, 3}
  /\ Accept
  /\ \E header \in AccessHeaders :
     \E body \in BodiesWith(header, ChirpBodies,
                            {[EmptyBody EXCEPT !.body = "hello"], MalformedBody}) :
       LET token == getBearerToken(header)
           userId == validateJWT(token.value, config.jwtSecret)
           chirp == createChirp(cleanProfanity(body.body), userId.sub)
           resp == IF ~token.ok THEN Thrown(token.err)
                   ELSE IF ~userId.ok THEN Thrown(userId.err)
                   ELSE IF ~body.json THEN Thrown(SyntaxError)
                   ELSE IF InvalidField(body.body)
                     THEN Thrown(Err("BadRequestError", "Invalid request body"))
                   ELSE IF TextLength(body.body) > MaxChirpLength
                     THEN Thrown(Err("BadRequestError", "Chirp is too long. Max length is 140"))
                   ELSE IF ~UserExists(userId.sub) THEN Thrown(StoreError)
                   ELSE Ok(201)
       IN IF resp.status = 201
            THEN /\ chirps' = chirps \cup {chirp}
                 /\ fresh' = fresh + 1
                 /\ last' = [Answer(ThisSeq, "createChirp", header, token.value, body, resp)
                               EXCEPT !.userId = userId.sub, !.chirpId = chirp.id]
            ELSE /\ UNCHANGED <<chirps, fresh>>
                 /\ last' = [Answer(ThisSeq, "createChirp", header, token.value, body, resp)
                               EXCEPT !.userId = userId.sub]
  /\ UNCHANGED <<codec, deploy, config, now, ticks, users, refreshTokens, inflight,
                 known, revoked, deleted, lastPw, sessions>>

\* GET /api/chirps/:chirpID
handlerGetChirp ==
  /\ deploy.build = 3
  /\ Accept
  /\ \E chirpId \in DrawnChirpIds \cup {"c0"} :
       LET found == getChirpById(chirpId)
           resp == IF found = {} THEN Thrown(Err("NotFoundError", "Chirp not found"))
                   ELSE Ok(200)
       IN last' = [Answer(ThisSeq, "getChirp", NoHeader, NoCred, EmptyBody, resp)
                     EXCEPT !.chirpId = chirpId, !.late = chirpId \in deleted,
                            !.userId = IF found = {} THEN ""
                                       ELSE (CHOOSE c \in found : TRUE).userId]
  /\ UNCHANGED <<codec, deploy, config, now, ticks, users, chirps, refreshTokens, fresh,
                 inflight, known, revoked, deleted, lastPw, sessions>>

\* the check that lets every identified user through
mayDelete_anyUser(chirp, userId) == TRUE

\* the ownership check of DELETE /api/chirps/:chirpID
mayDelete(chirp, userId) == chirp.userId = userId

\* DELETE /api/chirps/:chirpID, to the await of deleteChirp
handlerDeleteChirp ==
  /\ deploy.build = 3
  /\ Accept
  /\ \E header \in AccessHeaders, chirpId \in DrawnChirpIds \cup {"c0"} :
       LET token == getBearerToken(header)
           userId == validateJWT(token.value, config.jwtSecret)
           found == getChirpById(chirpId)
           chirp == CHOOSE c \in found : TRUE
           resp == IF ~token.ok THEN Thrown(token.err)
                   ELSE IF ~userId.ok THEN Thrown(userId.err)
                   ELSE IF found = {} THEN Thrown(Err("NotFoundError", "Chirp not found"))
                   ELSE IF ~mayDelete(chirp, userId.sub)
                     THEN Thrown(Err("ForbiddenError",
                                     "You are not authorized to delete this chirp"))
                   ELSE Ok(204)
       IN IF resp.status = 204
            THEN /\ inflight' = inflight \cup
                      {[NoRequest EXCEPT
                          !.seq = ThisSeq, !.kind = "deleteChirp", !.pc = "deleteChirp",
                          !.header = header, !.cred = token.value,
                          !.userId = userId.sub, !.chirpId = chirpId, !.late = chirpId \in deleted]}
                 /\ UNCHANGED last
            ELSE /\ last' = [Answer(ThisSeq, "deleteChirp", header, token.value, EmptyBody, resp)
                               EXCEPT !.userId = userId.sub, !.chirpId = chirpId,
                                      !.late = chirpId \in deleted]
                 /\ UNCHANGED inflight
  /\ UNCHANGED <<codec, deploy, config, now, ticks, users, chirps, refreshTokens, fresh,
                 known, revoked, deleted, lastPw, sessions>>

\* ... and from the delete to the response
handlerDeleteChirpDelete ==
  \E r \in inflight :
    /\ r.kind = "deleteChirp" /\ r.pc = "deleteChirp"
    /\ Settled(r)
    /\ inflight' = inflight \ {r}
    /\ chirps' = deleteChirp(r.chirpId)
    /\ deleted' = deleted \cup {r.chirpId}
    /\ last' = [Answer(r.seq, "deleteChirp", r.header, r.cred, EmptyBody, Ok(204))
                  EXCEPT !.userId = r.userId, !.chirpId = r.chirpId, !.late = r.late]
    /\ UNCHANGED <<codec, deploy, config, now, ticks, users, refreshTokens, fresh, started,
                   known, revoked, lastPw, sessions>>

\* the test that takes every event for an upgrade
isUpgradeEvent_anyEvent(event) == TRUE

\* parsedBody.event !== "user.upgraded"
isUpgradeEvent(event) == event = "user.upgraded"

\* POST /api/polka/webhooks
handlerPolkaWebhook ==
  /\ deploy.build = 3
  /\ Accept
  /\ \E header \in ApiKeyHeaders, body \in WebhookBodies :
       LET apiKey == getAPIKey(header)
           upgraded == upgradeUserToChirpyRed(body.userId)
           resp == IF ~apiKey.ok THEN Thrown(apiKey.err)
                   ELSE IF apiKey.value # Opaque(config.polkaKey)
                     THEN Thrown(Err("UnauthorizedError", "Invalid API key"))
                   ELSE IF ~body.json THEN Thrown(SyntaxError)
                   ELSE IF ~isUpgradeEvent(body.event) THEN Ok(204)
                   ELSE IF InvalidField(body.userId)
                     THEN Thrown(Err("BadRequestError", "Invalid user ID"))
                   ELSE IF upgraded = {} THEN Thrown(Err("NotFoundError", "User not found"))
                   ELSE Ok(204)
       IN /\ IF resp.status = 204 /\ isUpgradeEvent(body.event)
               THEN users' = {u \in users : u.id # body.userId} \cup upgraded
               ELSE UNCHANGED users
          /\ last' = Answer(ThisSeq, "webhook", header, apiKey.value, body, resp)
  /\ UNCHANGED <<codec, deploy, config, now, ticks, chirps, refreshTokens, fresh,
                 inflight, known, revoked, deleted, lastPw, sessions>>

\* POST /admin/reset, build 1: the counter only
handlerResetV1 ==
  /\ deploy.build = 1
  /\ Accept
  /\ config' = [config EXCEPT !.fileserverHits = 0]
  /\ last' = Answer(ThisSeq, "reset", NoHeader, NoCred, EmptyBody, Ok(200))
  /\ UNCHANGED <<codec, deploy, now, ticks, users, chirps, refreshTokens, fresh,
                 inflight, known, revoked, deleted, lastPw, sessions>>

\* the gate left open
resetAllowed_everywhere == TRUE

\* the gate of POST /admin/reset in builds 2 and 3
resetAllowed == config.platform = "dev"

\* POST /admin/reset, builds 2 and 3, to the first awaited delete: of the
\* refresh tokens in build 3, of the chirps in build 2
handlerReset ==
  /\ deploy.build \in {2, 3}
  /\ Accept
  /\ IF ~resetAllowed
       THEN /\ last' = Answer(ThisSeq, "reset", NoHeader, NoCred, EmptyBody,
                              Thrown(Err("ForbiddenError",
                                         "This endpoint is only available in development")))
            /\ UNCHANGED <<config, refreshTokens, chirps, inflight>>
       ELSE /\ config' = [config EXCEPT !.fileserverHits = 0]
            /\ IF deploy.build = 3
                 THEN refreshTokens' = {} /\ UNCHANGED chirps
                 ELSE chirps' = {} /\ UNCHANGED refreshTokens
            /\ inflight' = inflight \cup
                 {[NoRequest EXCEPT
                     !.seq = ThisSeq, !.kind = "reset",
                     !.pc = IF deploy.build = 3 THEN "deleteAllChirps"
                            ELSE "deleteAllUsers",
                     !.snapUsers = {u.id : u \in users},
                     !.snapChirps = {c.id : c \in chirps},
                     !.snapTokens = {t.token : t \in refreshTokens}]}
            /\ UNCHANGED last
  /\ UNCHANGED <<codec, deploy, now, ticks, users, fresh, known, revoked, deleted, lastPw, sessions>>

\* ... build 3: await deleteAllChirps()
handlerResetChirps ==
  \E r \in inflight :
    /\ r.kind = "reset" /\ r.pc = "deleteAllChirps"
    /\ Settled(r)
    /\ chirps' = {}
    /\ inflight' = (inflight \ {r}) \cup {[r EXCEPT !.pc = "deleteAllUsers"]}
    /\ UNCHANGED <<codec, deploy, config, now, ticks, users, refreshTokens, fresh, started,
                   last, known, revoked, deleted, lastPw, sessions>>

\* ... await deleteAllUsers(), and the response
handlerResetUsers ==
  \E r \in inflight :
    /\ r.kind = "reset" /\ r.pc = "deleteAllUsers"
    /\ Settled(r)
    /\ inflight' = inflight \ {r}
    /\ IF deleteAllUsersFails
         THEN /\ UNCHANGED <<users, chirps, refreshTokens, lastPw>>
              /\ last' = [Answer(r.seq, "reset", NoHeader, NoCred, EmptyBody, Thrown(StoreError))
                            EXCEPT !.snapUsers = r.snapUsers, !.snapChirps = r.snapChirps,
                                   !.snapTokens = r.snapTokens]
         ELSE /\ users' = {}
              /\ chirps' = {c \in chirps : ~UserExists(c.userId)}
              /\ refreshTokens' = {t \in refreshTokens : ~UserExists(t.userId)}
              /\ lastPw' = {}
              /\ last' = [Answer(r.seq, "reset", NoHeader, NoCred, EmptyBody, Ok(200))
                            EXCEPT !.snapUsers = r.snapUsers, !.snapChirps = r.snapChirps,
                                   !.snapTokens = r.snapTokens]
    /\ UNCHANGED <<codec, deploy, config, now, ticks, fresh, started, known, revoked, deleted, sessions>>

Next ==
  \/ Tick
  \/ middlewareMetricsInc
  \/ handlerCreateUser
  \/ handlerUpdateUser
  \/ handlerLoginV2
  \/ handlerLogin
  \/ handlerLoginInsert
  \/ handlerRefresh
  \/ handlerRevoke
  \/ handlerCreateChirp
  \/ handlerGetChirp
  \/ handlerDeleteChirp
  \/ handlerDeleteChirpDelete
  \/ handlerPolkaWebhook
  \/ handlerResetV1
  \/ handlerReset
  \/ handlerResetChirps
  \/ handlerResetUsers

Spec == Init /\ [][Next]_vars

(***************************************************************************)
(* The same server under the requests of one part of its interface: the    *)
(* routes that read or write the tables a property is about.               *)
(***************************************************************************)
\* sessions: the refresh_tokens table, build 3
NextSession ==
  \/ Tick
  \/ handlerUpdateUser
  \/ handlerLogin
  \/ handlerLoginInsert
  \/ handlerRefresh
  \/ handlerRevoke
  \/ handlerReset
  \/ handlerResetChirps
  \/ handlerResetUsers

InitSession == Init /\ deploy.build = 3
SpecSession == InitSession /\ [][NextSession]_vars

\* credentials: the email and the password hash of the users table, builds
\* 2 and 3
NextCredentials ==
  \/ Tick
  \/ handlerCreateUser
  \/ handlerUpdateUser
  \/ handlerLoginV2
  \/ handlerLogin
  \/ handlerLoginInsert

InitCredentials == Init /\ deploy.build \in {2, 3}
SpecCredentials == InitCredentials /\ [][NextCredentials]_vars

\* makeJWT(userID, expiresIn, secret) with the arguments drawn at the start
codecMakeJWT ==
  /\ codec.pc = "makeJWT"
  /\ LET token == makeJWT(codec.userID, codec.expiresIn, codec.secret)
     IN codec' = [codec EXCEPT !.pc = "validateJWT", !.made = token,
                               !.tokenString = token,
                               !.iat = now \div TicksPerSecond]
  /\ UNCHANGED <<deploy, config, now, ticks, users, chirps, refreshTokens, fresh,
                 started, inflight, last, known, revoked, deleted, lastPw, sessions>>

\* The texts validateJWT may be given in place of the token made: the token
\* with its payload edited, whose signature is then of no secret; a text
\* that is no token; a payload without a subject, or with one that is no
\* string, signed with the same secret.
Altered(token) ==
  {[token EXCEPT !.exp = token.exp + ONE_HOUR, !.key = "stale"],
   Opaque("bogus")}
OddSubject(token) == {[token EXCEPT !.sub = s] : s \in {Undefined, NonString}}

codecPresent ==
  /\ codec.pc = "validateJWT"
  /\ \E t \in Altered(codec.made) \cup OddSubject(codec.made) :
       codec' = [codec EXCEPT !.pc = "presented", !.tokenString = t]
  /\ UNCHANGED <<deploy, config, now, ticks, users, chirps, refreshTokens, fresh,
                 started, inflight, last, known, revoked, deleted, lastPw, sessions>>

\* validateJWT(tokenString, secret) on the token made, with either secret
codecValidateJWT ==
  /\ codec.pc \in {"validateJWT", "presented"}
  /\ \E secret \in CodecSecrets :
       LET result == validateJWT(codec.tokenString, secret)
       IN codec' = [codec EXCEPT !.pc = "done", !.verifySecret = secret,
                                 !.verifiedAt = now \div TicksPerSecond,
                                 !.result = result,
                                 !.status = IF result.ok THEN 200
                                            ELSE errorHandler(result.err).status]
  /\ UNCHANGED <<deploy, config, now, ticks, users, chirps, refreshTokens, fresh,
                 started, inflight, last, known, revoked, deleted, lastPw, sessions>>

NextCodec ==
  \/ Tick
  \/ codecMakeJWT
  \/ codecPresent
  \/ codecValidateJWT

InitCodec == InitServer /\ codec \in CodecInputs /\ deploy.build \in {2, 3}
SpecCodec == InitCodec /\ [][NextCodec]_vars

\* getBearerToken(req) on the header drawn at the start
codecGetBearerToken ==
  /\ codec.pc = "header"
  /\ "getBearerToken" \notin codec.called
  /\ codec' = [codec EXCEPT !.called = @ \cup {"getBearerToken"},
                            !.bearer = getBearerToken(codec.authHeader)]
  /\ UNCHANGED <<deploy, config, now, ticks, users, chirps, refreshTokens, fresh,
                 started, inflight, last, known, revoked, deleted, lastPw, sessions>>

\* getAPIKey(req) on the header drawn at the start
codecGetAPIKey ==
  /\ codec.pc = "header"
  /\ "getAPIKey" \notin codec.called
  /\ codec' = [codec EXCEPT !.called = @ \cup {"getAPIKey"},
                            !.apiKey = getAPIKey(codec.authHeader)]
  /\ UNCHANGED <<deploy, config, now, ticks, users, chirps, refreshTokens, fresh,
                 started, inflight, last, known, revoked, deleted, lastPw, sessions>>

NextHeader ==
  \/ codecGetBearerToken
  \/ codecGetAPIKey

InitHeader == InitServer /\ codec \in HeaderInputs /\ deploy.build = 2
SpecHeader == InitHeader /\ [][NextHeader]_vars

\* errorHandler(err, req, res, next) on the error drawn at the start
codecErrorHandler ==
  /\ codec.pc = "error"
  /\ codec' = [codec EXCEPT !.pc = "answered",
                            !.response = errorHandler(codec.thrown)]
  /\ UNCHANGED <<deploy, config, now, ticks, users, chirps, refreshTokens, fresh,
                 started, inflight, last, known, revoked, deleted, lastPw, sessions>>

NextBoundary ==
  \/ codecErrorHandler

InitBoundary == InitServer /\ codec \in ErrorInputs
SpecBoundary == InitBoundary /\ [][NextBoundary]_vars

\* every route, the clock standing still; a handler suspended at an await
\* is resumed when the awaited promise settles
NextFair ==
  \/ middlewareMetricsInc
  \/ handlerCreateUser
  \/ handlerUpdateUser
  \/ handlerLoginV2
  \/ handlerLogin
  \/ handlerLoginInsert
  \/ handlerRefresh
  \/ handlerRevoke
  \/ handlerCreateChirp
  \/ handlerGetChirp
  \/ handlerDeleteChirp
  \/ handlerDeleteChirpDelete
  \/ handlerPolkaWebhook
  \/ handlerResetV1
  \/ handlerReset
  \/ handlerResetChirps
  \/ handlerResetUsers

Fairness ==
  /\ WF_vars(handlerLoginInsert)
  /\ WF_vars(handlerDeleteChirpDelete)
  /\ WF_vars(handlerResetChirps)
  /\ WF_vars(handlerResetUsers)

SpecFair == Init /\ [][NextFair]_vars /\ Fairness

\* the routes that check a credential before anything else, build 3
NextProtected ==
  \/ Tick
  \/ handlerUpdateUser
  \/ handlerCreateChirp
  \/ handlerDeleteChirp
  \/ handlerDeleteChirpDelete
  \/ handlerPolkaWebhook

InitProtected == Init /\ deploy.build = 3
SpecProtected == InitProtected /\ [][NextProtected]_vars

\* access tokens: the routes that issue one, builds 2 and 3
NextAccess ==
  \/ Tick
  \/ handlerLoginV2
  \/ handlerLogin
  \/ handlerLoginInsert
  \/ handlerRefresh

InitAccess == Init /\ deploy.build \in {2, 3}
SpecAccess == InitAccess /\ [][NextAccess]_vars

\* chirps: the chirps table, build 3
NextChirps ==
  \/ Tick
  \/ handlerCreateChirp
  \/ handlerGetChirp
  \/ handlerDeleteChirp
  \/ handlerDeleteChirpDelete
  \/ handlerReset
  \/ handlerResetChirps
  \/ handlerResetUsers

InitChirps == Init /\ deploy.build = 3
SpecChirps == InitChirps /\ [][NextChirps]_vars

\* reset: every table and the hit counter, all builds
NextReset ==
  \/ middlewareMetricsInc
  \/ handlerCreateUser
  \/ handlerLoginV2
  \/ handlerLogin
  \/ handlerLoginInsert
  \/ handlerCreateChirp
  \/ handlerResetV1
  \/ handlerReset
  \/ handlerResetChirps
  \/ handlerResetUsers

SpecReset == Init /\ [][NextReset]_vars

\* the payment webhook: the tier flag of the users table, build 3
NextWebhook ==
  \/ handlerCreateUser
  \/ handlerUpdateUser
  \/ handlerPolkaWebhook
  \/ handlerReset
  \/ handlerResetChirps
  \/ handlerResetUsers

InitWebhook == Init /\ deploy.build = 3
SpecWebhook == InitWebhook /\ [][NextWebhook]_vars


(***************************************************************************)
(* Properties.  Answered(kind) is a step in which a request of this kind   *)
(* gets its response; AnsweredAtOnce(kind) one in which it gets it in the  *)
(* step that accepted it, so that the unprimed store is the store the      *)
(* handler read.                                                           *)
(***************************************************************************)
Answered(kind) == last'.seq # last.seq /\ last'.kind = kind
AnsweredAtOnce(kind) == Answered(kind) /\ started' = started + 1

\* a stored row that makes the token usable now
UsableRow(t) ==
  \E r \in refreshTokens :
    /\ t.kind = "opaque" /\ r.token = t.v
    /\ r.revokedAt = Null
    /\ r.expiresAt > now

\* C1: a POST /api/refresh that presents a token t answers 200 if and only
\* if a row of refresh_tokens holds t with no revokedAt and an expiresAt
\* strictly later than now; in every other case it answers 401 "Invalid or
\* expired refresh token".
C1_RefreshIffUsableRow ==
  [][(AnsweredAtOnce("refresh") /\ getBearerToken(last'.header).ok)
       => IF UsableRow(getBearerToken(last'.header).value)
            THEN last'.status = 200
            ELSE /\ last'.status = 401
                 /\ last'.error = "Invalid or expired refresh token"]_vars

\* a refresh with a token whose row has just expired is refused, and one
\* with a usable token has been answered
C1_Witness_Refused ==
  /\ last.kind = "refresh" /\ last.status = 401
  /\ last.error = "Invalid or expired refresh token"
  /\ \E r \in refreshTokens :
       /\ last.cred = Opaque(r.token)
       /\ r.revokedAt = Null
       /\ r.expiresAt = now

\* C2: once a revoke of token t has committed, no row of refresh_tokens
\* holds t with revokedAt absent, and every refresh with t that reads the
\* store afterwards answers 401, under every interleaving of login, refresh,
\* revoke, update-credentials and reset requests and at all later times.
C2_RevokedStaysRefused ==
  /\ \A t \in revoked :
       ~\E r \in refreshTokens :
          t.kind = "opaque" /\ r.token = t.v /\ r.revokedAt = Null
  /\ (last.kind = "refresh" /\ last.late) => last.status = 401

\* a refresh with a token of the server that was revoked before is refused
\* while the row is still stored and has not expired
C2_Witness_RefusedAfterRevoke ==
  /\ last.kind = "refresh" /\ last.late /\ last.status = 401
  /\ last.cred \in known
  /\ \E r \in refreshTokens :
       last.cred = Opaque(r.token) /\ r.revokedAt # Null /\ r.expiresAt > now

\* the rows of a token that a login returned
SessionRows(s) == {r \in refreshTokens : r.token = s.token}
SessionEnds(s) == s.at + 5184000 * TicksPerSecond
SessionResolves(s) ==
  /\ getUserFromRefreshToken(Opaque(s.token)) = {u \in users : u.id = s.userId}
  /\ \E u \in users : u.id = s.userId

\* the step that answers a login with 200 adds exactly one row, of the
\* token in the response, bound to the user in the response, with revokedAt
\* absent and expiresAt sixty days after the login
LoginPersistsOneRow ==
  (Answered("login") /\ last'.status = 200 /\ deploy.build = 3)
    => \E s \in sessions' \ sessions :
         /\ s.token = last'.refreshToken /\ s.userId = last'.user.id
         /\ last'.token.iat = s.at \div TicksPerSecond
         /\ refreshTokens' \ refreshTokens =
              {r \in refreshTokens' :
                 /\ r.token = s.token /\ r.userId = s.userId
                 /\ r.revokedAt = Null /\ r.expiresAt = SessionEnds(s)}
         /\ Cardinality(refreshTokens' \ refreshTokens) = 1
         /\ refreshTokens \subseteq refreshTokens'

\* a refresh answered 200 with a token a login returned yields an access
\* token whose subject is the user of that login
RefreshYieldsSessionUser ==
  (last.kind = "refresh" /\ last.status = 200)
    => \A s \in sessions :
         last.cred = Opaque(s.token)
           => /\ last.token.kind = "jwt" /\ last.token.sub = s.userId
              /\ last.token.key = config.jwtSecret

\* C3 as stated: every successful login of user u persists exactly one new
\* row of refresh_tokens bound to u with revokedAt absent and expiresAt =
\* login time + 60 days, and the token returned resolves to u until it is
\* revoked or expires.
C3_ResolvesUntilRevokedOrExpired ==
  /\ [][LoginPersistsOneRow]_vars
  /\ [](RefreshYieldsSessionUser
         /\ \A s \in sessions :
              (Opaque(s.token) \notin revoked /\ now < SessionEnds(s))
                => SessionResolves(s))

\* C3, amended: every successful login of user u persists exactly one new
\* row of refresh_tokens bound to u with revokedAt absent and expiresAt =
\* login time + 60 days, and the token returned resolves to u for as long as
\* it is not revoked, has not expired, and its row and its user are stored;
\* the administrative reset deletes them, and once the row is deleted the
\* token does not resolve.
C3_ResolvesWhileRowStored ==
  /\ [][LoginPersistsOneRow]_vars
  /\ [](RefreshYieldsSessionUser
         /\ \A s \in sessions :
              /\ (Opaque(s.token) \notin revoked /\ now < SessionEnds(s)
                    /\ SessionRows(s) # {} /\ UserExists(s.userId))
                   => SessionResolves(s)
              /\ SessionRows(s) = {}
                   => getUserFromRefreshToken(Opaque(s.token)) = {})

\* a refresh with the token that a login of this run returned is answered
\* 200
C3_Witness_RefreshAfterLogin ==
  /\ last.kind = "refresh" /\ last.status = 200
  /\ \E s \in sessions \ SeedSessions :
       last.cred = Opaque(s.token) /\ last.token.sub = s.userId

\* a step that accepts a login with this body, and one in which the login
\* it accepts passes the credential checks: build 2 answers it 200, build 3
\* goes on to insert the refresh token
LoginStarted(body) ==
  /\ started' = started + 1
  /\ \/ Answered("login") /\ last'.body = body
     \/ \E r \in inflight' \ inflight : r.kind = "login" /\ r.body = body
LoginPassed ==
  \/ Answered("login") /\ last'.status = 200
  \/ \E r \in inflight' \ inflight : r.kind = "login"

\* the password is the one set last for the user who holds the email
CurrentCredentials(body) ==
  \E u \in users : u.email = body.email /\ <<u.id, body.password>> \in lastPw

\* email or password missing or not a string, email not registered,
\* password not matching
CredentialFailure(body) ==
  \/ InvalidField(body.email)
  \/ InvalidField(body.password)
  \/ ~\E u \in users : u.email = body.email
  \/ ~CurrentCredentials(body)

\* C4: every login that fails on its credentials (email or password missing
\* or not a string, email not registered, password not matching) is answered
\* 401 "Incorrect email or password" with nothing else in the response, the
\* same whether or not the email is registered, and it creates no row of
\* refresh_tokens and changes no row of users.
C4_FailedLoginsAlike ==
  [][\A body \in LoginBodies :
       (LoginStarted(body) /\ body.json /\ CredentialFailure(body))
         => /\ Answered("login")
            /\ last' = Answer(last'.seq, "login", NoHeader, NoCred, body,
                              [status |-> 401, error |-> "Incorrect email or password"])
            /\ UNCHANGED <<users, refreshTokens, inflight>>]_vars

\* a login with an email nobody registered has been refused while other
\* users are registered
C4_Witness_Unregistered ==
  /\ last.kind = "login" /\ last.status = 401
  /\ ~InvalidField(last.body.email) /\ ~InvalidField(last.body.password)
  /\ users # {}
  /\ ~\E u \in users : u.email = last.body.email

ServerSigned(h) ==
  /\ h.text = <<"Bearer", " ", "CRED">>
  /\ h.cred \in known
  /\ h.cred.kind = "jwt" /\ h.cred.key = config.jwtSecret
ValidAccess(h) == ServerSigned(h) /\ (now \div TicksPerSecond) < h.cred.exp

\* a step that accepts a DELETE of chirp id with header h
DeleteAccepted(h, id) ==
  /\ started' = started + 1
  /\ \/ Answered("deleteChirp") /\ last'.header = h /\ last'.chirpId = id
     \/ \E r \in inflight' \ inflight :
          r.kind = "deleteChirp" /\ r.header = h /\ r.chirpId = id

\* C6: a step of DELETE /api/chirps/:id removes a row of chirps only when
\* the subject of the access token the request was validated with is the
\* author of the chirp; a request whose validated identity is not the author
\* is answered 403 and leaves the chirp stored, under every interleaving of
\* the delete requests.
C6_OnlyAuthorDeletes ==
  [][/\ \A r \in inflight \ inflight' :
          r.kind = "deleteChirp"
            => /\ chirps \ chirps' \subseteq {c \in chirps : c.id = r.chirpId}
               /\ \A c \in chirps \ chirps' :
                    ServerSigned(r.header) /\ r.header.cred.sub = c.userId
     /\ \A h \in AccessHeaders : \A c \in chirps :
          (DeleteAccepted(h, c.id) /\ ValidAccess(h) /\ h.cred.sub # c.userId)
            => /\ Answered("deleteChirp") /\ last'.status = 403
               /\ UNCHANGED <<chirps, inflight>>]_vars

\* the delete of another user's chirp has been answered 403 and the chirp
\* is stored
C6_Witness_Forbidden ==
  /\ last.kind = "deleteChirp" /\ last.status = 403
  /\ \E c \in chirps :
       c.id = last.chirpId /\ c.userId # last.cred.sub /\ last.cred \in known

\* a deleted chirp id is never retrievable again
DeletedStaysGone == \A id \in deleted : getChirpById(id) = {}

\* C7 as stated: after the author's DELETE of a chirp id has answered 204,
\* every later get-by-id and every later delete of that id answers 404, and
\* the id is never retrievable again.
C7_LaterRequestsNotFound ==
  /\ DeletedStaysGone
  /\ (last.kind \in {"getChirp", "deleteChirp"} /\ last.late) => last.status = 404

\* C7, amended: after the author's DELETE of a chirp id has answered 204,
\* every later get-by-id of the id answers 404, and every later delete of
\* the id answers 404 when it carries an access token that validates and 401
\* when it does not, the token being checked before the chirp is looked up;
\* the id is never retrievable again.
C7_LaterRequestsNotFoundOrUnauthorized ==
  /\ DeletedStaysGone
  /\ (last.kind = "getChirp" /\ last.late) => last.status = 404
  /\ (last.kind = "deleteChirp" /\ last.late)
       => /\ last.status \in {401, 404}
          /\ last.status = 404 => ServerSigned(last.header)
          /\ last.status = 401 => last.userId = Undefined

\* the chirp is asked for after its author's delete was answered, and is
\* not found
C7_Witness_GetAfterDelete ==
  /\ last.kind = "getChirp" /\ last.late /\ last.status = 404
  /\ last.chirpId \in deleted

\* a step that accepts a POST /admin/reset, and a step of a reset
ResetStarted ==
  /\ started' = started + 1
  /\ \/ Answered("reset")
     \/ \E r \in inflight' \ inflight : r.kind = "reset"
ResetStep ==
  \/ ResetStarted
  \/ \E r \in inflight \ inflight' : r.kind = "reset"
ResetRefused ==
  /\ Answered("reset") /\ last'.status = 403
  /\ UNCHANGED <<users, chirps, refreshTokens, config, inflight>>

CarriesKey(h) ==
  /\ h.text = <<"ApiKey", " ", "CRED">>
  /\ h.cred = Opaque(config.polkaKey)

\* C10: a POST /api/polka/webhooks whose ApiKey credential is not exactly
\* the configured key is answered 401 whatever its body is, and leaves the
\* tier flag of every user unchanged.
C10_WrongKeyUnauthorized ==
  [][(Answered("webhook") /\ ~CarriesKey(last'.header))
       => /\ last'.status = 401
          /\ users' = users]_vars

\* an upgrade of a stored user sent with another key has been answered 401
\* and the user is not upgraded
C10_Witness_WrongKey ==
  /\ last.kind = "webhook" /\ last.status = 401
  /\ last.header.text = <<"ApiKey", " ", "CRED">>
  /\ last.header.cred # Opaque(config.polkaKey)
  /\ last.body.event = "user.upgraded"
  /\ \E u \in users : u.id = last.body.userId /\ ~u.isChirpyRed

\* the rows of every table and the hit counter
Stored == <<users, chirps, refreshTokens, config>>

\* C11: with the configured key, a webhook whose event is "user.upgraded"
\* and whose userId is the id of a stored user answers 204 and sets the tier
\* flag of that user and changes nothing else; a webhook with any other
\* event answers 204 and changes no stored state; a userId that is missing
\* or not a string answers 400, and one of no stored user 404, both without
\* a change of state.
C11_WebhookEffects ==
  [][(Answered("webhook") /\ CarriesKey(last'.header) /\ last'.body.json)
       => LET body == last'.body
          IN IF body.event # "user.upgraded"
               THEN last'.status = 204 /\ Stored' = Stored
             ELSE IF InvalidField(body.userId)
               THEN last'.status = 400 /\ Stored' = Stored
             ELSE IF ~\E u \in users : u.id = body.userId
               THEN last'.status = 404 /\ Stored' = Stored
             ELSE /\ last'.status = 204
                  /\ users' = {IF u.id = body.userId
                                 THEN [u EXCEPT !.isChirpyRed = TRUE]
                                 ELSE u : u \in users}
                  /\ UNCHANGED <<chirps, refreshTokens, config>>]_vars

\* an upgrade has been answered 204, the user it names has the flag and
\* another user has not
C11_Witness_Upgraded ==
  /\ last.kind = "webhook" /\ last.status = 204
  /\ last.body.event = "user.upgraded"
  /\ \E u \in users : u.id = last.body.userId /\ u.isChirpyRed
  /\ \E u \in users : u.id # last.body.userId /\ ~u.isChirpyRed

\* the header is "Bearer ", followed by a text without a space or by nothing
PresentsBearer(h) ==
  /\ Len(h.text) \in {2, 3}
  /\ h.text[1] = "Bearer" /\ h.text[2] = " "
  /\ Len(h.text) = 3 => h.text[3] # " "

\* C12 as stated: POST /api/revoke answers 204 for every request and every
\* state of the store, and never an error status.
C12_RevokeAlways204 == last.kind = "revoke" => last.status = 204

\* C12, amended: POST /api/revoke answers 204 for every request whose
\* Authorization header is "Bearer <token>", whatever the store holds for
\* the token (usable, revoked, expired, or no row); a request whose header is
\* missing or not of that form answers 401 and changes no row.
C12_RevokeWithBearer204 ==
  [][Answered("revoke")
       => IF PresentsBearer(last'.header)
            THEN last'.status = 204
            ELSE last'.status = 401 /\ refreshTokens' = refreshTokens]_vars

\* the revoke of a token that no row holds has been answered 204 while
\* rows are stored
C12_Witness_UnknownToken ==
  /\ last.kind = "revoke" /\ last.status = 204
  /\ refreshTokens # {}
  /\ \A r \in refreshTokens : last.cred # Opaque(r.token)

\* C13: a revoke of a token that is already revoked or that no row holds
\* leaves refresh_tokens as it was; the revokedAt of a revoked token keeps
\* its first value, and two revokes leave what one leaves.
C13_RevokeNoOpWhenRevokedOrAbsent ==
  [][(Answered("revoke") /\ PresentsBearer(last'.header)
        /\ \A r \in refreshTokens :
             last'.cred = Opaque(r.token) => r.revokedAt # Null)
       => refreshTokens' = refreshTokens]_vars

\* C14: a POST /api/refresh, answered 200 or not, leaves refresh_tokens and
\* users as they were; the token it redeemed is as usable after it as
\* before, so that it can be redeemed again.
C14_RefreshLeavesStore ==
  [][Answered("refresh")
       => /\ refreshTokens' = refreshTokens
          /\ users' = users
          /\ last'.status = 200
               => \E r \in refreshTokens' :
                    /\ last'.cred = Opaque(r.token)
                    /\ r.revokedAt = Null
                    /\ r.expiresAt > now']_vars

\* the token of an earlier login has been redeemed at two different hours
\* and the second refresh was answered 200: three access tokens of its user
\* are out, and no login came in between
C14_Witness_RedeemedTwice ==
  /\ last.kind = "refresh" /\ last.status = 200 /\ last.seq = 2
  /\ sessions = SeedSessions
  /\ Cardinality({k \in known : k.kind = "jwt" /\ k.sub = last.token.sub}) = 3

\* C15: the access token in a 200 response of POST /api/refresh is signed
\* with the configured secret, has issuer "chirpy", an expires-at exactly
\* 3600 seconds after its issued-at, the current clock second as issued-at,
\* and as subject the userId of the row that holds the presented refresh
\* token, never another user.
C15_RefreshTokenOfOwner ==
  [][(Answered("refresh") /\ last'.status = 200)
       => LET t == last'.token
          IN /\ t.kind = "jwt" /\ t.key = config.jwtSecret
             /\ t.iss = "chirpy"
             /\ t.iat = now \div TicksPerSecond
             /\ t.exp = t.iat + 3600
             /\ \E r \in refreshTokens : last'.cred = Opaque(r.token)
             /\ \A r \in refreshTokens :
                  last'.cred = Opaque(r.token) => t.sub = r.userId]_vars

\* a refresh with the second user's token, an hour or more after the
\* start, has been answered 200 with a token of the second user
C15_Witness_SecondUser ==
  /\ last.kind = "refresh" /\ last.status = 200
  /\ last.cred = Opaque("r2") /\ last.token.sub = "u2"
  /\ last.token.iat >= 3600

\* C16: when a login of this run is followed by a refresh with the refresh
\* token the login returned, the access token of the refresh is another
\* string than the access token of the login, with the same subject.
C16_RefreshGivesAnotherString ==
  (last.kind = "refresh" /\ last.status = 200)
    => \A s \in sessions \ SeedSessions :
         last.cred = Opaque(s.token)
           => /\ last.token.sub = s.accessToken.sub
              /\ last.token # s.accessToken

\* C17: every access token a login or a refresh answers with has
\* exp = iat + lifetime, where the lifetime is the requested expiresInSeconds
\* cut at 3600 when the request carries the number, and 3600 otherwise; no
\* token lives longer than 3600 seconds, and none is issued in the future.
C17_LifetimeAtMostOneHour ==
  (last.kind \in {"login", "refresh"} /\ last.status = 200)
    => LET asked == last.body.expiresInSeconds
           lifetime == IF asked.t # "number" \/ asked.n > 3600 THEN 3600
                       ELSE asked.n
       IN /\ last.token.exp = last.token.iat + lifetime
          /\ last.token.exp - last.token.iat <= 3600
          /\ last.token.iat <= now \div TicksPerSecond

C17_Witness_AskedTwoHours ==
  /\ last.kind = "login"
  /\ last.status = 200
  /\ last.body.expiresInSeconds = ExpNumber(2 * ONE_HOUR)
  /\ last.token.iat > 0

C19_FailsAsUnauthorized ==
  (/\ codec.pc = "done"
   /\ \/ codec.verifySecret # codec.secret
      \/ codec.verifiedAt >= codec.made.exp
      \/ codec.tokenString \in Altered(codec.made)
      \/ codec.tokenString.sub \in {Undefined, NonString, ""})
    => ~codec.result.ok /\ codec.status = 401

\* C20: whether a request of PUT /api/users with a header "Bearer <token>"
\* passes validateJWT is decided by the token, the configured secret and the
\* clock second alone, in every state of users, chirps and refresh_tokens:
\* a token signed with the secret, with a subject, before its exp is taken
\* as its subject (the answer is not 401), also after a revoke of the
\* refresh token of its login, an update of the credentials or a reset; any
\* other token is answered 401.
C20_VerificationIgnoresStore ==
  [][(Answered("updateUser") /\ getBearerToken(last'.header).ok)
       => LET t == last'.cred
          IN IF /\ t.kind = "jwt"
                /\ t.key = config.jwtSecret
                /\ (now \div TicksPerSecond) < t.exp
                /\ ~InvalidField(t.sub)
               THEN last'.status # 401 /\ last'.userId = t.sub
               ELSE last'.status = 401]_vars

\* the access token of a login is accepted after the refresh token of that
\* login was revoked
C20_Witness_AcceptedAfterRevoke ==
  /\ last.kind = "updateUser" /\ last.status = 200
  /\ \E s \in sessions :
       /\ s.accessToken = last.cred
       /\ Opaque(s.token) \in revoked
       /\ \E r \in refreshTokens : r.token = s.token /\ r.revokedAt # Null

\* C21: a PUT /api/users changes, of all stored rows, only the row of the
\* user the token names, and of that row only email, password hash and
\* updated-at: refresh_tokens and chirps are as before, so every refresh
\* token that resolved before the update resolves after it.
C21_UpdateTouchesOneUserRow ==
  [][Answered("updateUser")
       => /\ refreshTokens' = refreshTokens
          /\ chirps' = chirps
          /\ \A t \in known : UsableRow(t)
                => \E r \in refreshTokens' :
                     /\ r.token = t.v /\ r.revokedAt = Null /\ r.expiresAt > now'
          /\ {u.id : u \in users'} = {u.id : u \in users}
          /\ \A u \in users : \A w \in users' :
               u.id = w.id
                 => /\ w.isChirpyRed = u.isChirpyRed
                    /\ u.id # last'.userId => w = u]_vars

\* a user's refresh token is redeemed after that user's credentials were
\* updated
C21_Witness_RefreshAfterUpdate ==
  /\ last.kind = "refresh" /\ last.status = 200
  /\ last.cred = Opaque("r1")
  /\ \E u \in users :
       /\ u.id = "u1" /\ last.userId = "u1"
       /\ u.hashedPassword # hashPassword("pw1", "s1")

\* C22: in every state, a PUT /api/users whose access token validates and
\* whose body has an email, held by no other user, and a password answers
\* 200 with the updated user; one whose token does not validate answers 401
\* and leaves users as it was.
C22_UpdateAnswers200Or401 ==
  [][Answered("updateUser")
       => LET t == last'.cred
              body == last'.body
          IN IF /\ getBearerToken(last'.header).ok
                /\ validateJWT(t, config.jwtSecret).ok
               THEN (body.json /\ ~InvalidField(body.email)
                       /\ ~InvalidField(body.password)
                       /\ ~updateUserConflict(t.sub, body.email))
                      => /\ last'.status = 200
                         /\ last'.user \in users'
                         /\ last'.user.id = t.sub
                         /\ last'.user.email = body.email
               ELSE last'.status = 401 /\ users' = users]_vars

\* C23: in every state no two rows of users have the same email; a POST
\* /api/users with an email some row holds answers 400 and leaves users as
\* it was, one answered 201 adds the one row with that email, held by no
\* row before, and a PUT /api/users leaves no email on two rows.
EmailsUnique == \A u \in users : \A w \in users : u.email = w.email => u = w

C23_EmailsStayUnique ==
  /\ [](EmailsUnique)
  /\ [][Answered("createUser")
          => LET body == last'.body
                 held == \E u \in users : u.email = body.email
             IN /\ (body.json /\ ~InvalidField(body.email)
                      /\ ~InvalidField(body.password) /\ held)
                     => last'.status = 400 /\ users' = users
                /\ last'.status = 201
                     => /\ ~held
                        /\ \E u \in users' :
                             /\ users' = users \cup {u}
                             /\ u.email = body.email
                             /\ u.id \notin {w.id : w \in users}
                /\ last'.status # 201 => users' = users]_vars

\* two registrations of one email, nobody registered before: the second is
\* answered 400 and one row holds the email
C23_Witness_SecondRegistration ==
  /\ last.kind = "createUser" /\ last.seq = 2
  /\ last.status = 400
  /\ last.error = "User with this email already exists"
  /\ Cardinality(users) = 1
  /\ \A u \in users : u.email = last.body.email

\* a header text that has exactly one space, right after the scheme word at
\* its start: split on single spaces it gives two parts, the scheme and
\* what follows the space
TwoPartsOf(text, scheme) ==
  /\ Cardinality({i \in 1..Len(text) : text[i] = " "}) = 1
  /\ Len(text) >= 2
  /\ text[1] = scheme /\ text[2] = " "
SecondPart(header) ==
  PartValue(SubSeq(header.text, 3, Len(header.text)), header.cred)

\* C24: getBearerToken returns the second part of the header exactly when
\* the header splits on single spaces into two parts of which the first is
\* "Bearer", getAPIKey the same with "ApiKey"; every other header is
\* refused, and no header is accepted by both.
C24_TwoPartsWithScheme ==
  LET h == codec.authHeader
  IN /\ "getBearerToken" \in codec.called
          => /\ codec.bearer.ok <=> TwoPartsOf(h.text, "Bearer")
             /\ codec.bearer.ok => codec.bearer.value = SecondPart(h)
             /\ ~codec.bearer.ok => codec.bearer.err # NoErr
     /\ "getAPIKey" \in codec.called
          => /\ codec.apiKey.ok <=> TwoPartsOf(h.text, "ApiKey")
             /\ codec.apiKey.ok => codec.apiKey.value = SecondPart(h)
             /\ ~codec.apiKey.ok => codec.apiKey.err # NoErr
     /\ codec.called = {"getBearerToken", "getAPIKey"}
          => ~(codec.bearer.ok /\ codec.apiKey.ok)

\* "ApiKey <credential>" given to both: getAPIKey returns the credential,
\* getBearerToken refuses
C24_Witness_ApiKeyHeader ==
  /\ codec.called = {"getBearerToken", "getAPIKey"}
  /\ codec.authHeader.text = <<"ApiKey", " ", "CRED">>
  /\ codec.apiKey.ok /\ codec.apiKey.value = Opaque("tok")
  /\ ~codec.bearer.ok

\* C25: errorHandler answers a BadRequestError with 400, an
\* UnauthorizedError with 401, a ForbiddenError with 403 and a NotFoundError
\* with 404, each with the message of the error, and every other error with
\* 500 and the text "Something went wrong on our end", whatever the message
\* of the error was.
C25_OneResponsePerCategory ==
  codec.pc = "answered"
    => LET err == codec.thrown
           r == codec.response
       IN /\ err.class = "BadRequestError" => r = [status |-> 400, error |-> err.message]
          /\ err.class = "UnauthorizedError" => r = [status |-> 401, error |-> err.message]
          /\ err.class = "ForbiddenError" => r = [status |-> 403, error |-> err.message]
          /\ err.class = "NotFoundError" => r = [status |-> 404, error |-> err.message]
          /\ err.class \notin ErrorClasses
               => r = [status |-> 500, error |-> "Something went wrong on our end"]

\* an error of the store, whose message names a constraint, was answered
\* 500 with the fixed text
C25_Witness_StoreErrorHidden ==
  /\ codec.pc = "answered"
  /\ codec.thrown.class = "PostgresError"
  /\ codec.thrown.message # ""
  /\ codec.response.status = 500
  /\ codec.response.error # codec.thrown.message

\* the requests accepted and not yet answered
Pending == {r.seq : r \in inflight}

C27_MissingIsNotMalformed ==
  "getBearerToken" \in codec.called
    => LET text == codec.authHeader.text
           message == codec.bearer.err.message
       IN /\ text = <<>>
               => ~codec.bearer.ok /\ message = "Authorization header missing"
          /\ (text # <<>> /\ ~TwoPartsOf(text, "Bearer"))
               => ~codec.bearer.ok /\ message = "Invalid Authorization header format"
          /\ (text # <<>> /\ TwoPartsOf(text, "Bearer")) => codec.bearer.ok

\* getBearerToken was called on a request without the header
C27_Witness_NoHeader ==
  /\ "getBearerToken" \in codec.called
  /\ codec.authHeader.text = <<>>
  /\ codec.bearer.err.message = "Authorization header missing"

C29_AuthorIsCreator ==
  [][/\ chirps' \ chirps # {}
          => /\ Answered("createChirp") /\ last'.status = 201
             /\ getBearerToken(last'.header).ok
             /\ validateJWT(last'.cred, config.jwtSecret).ok
             /\ \E c \in chirps' :
                  /\ chirps' = chirps \cup {c}
                  /\ c.id = last'.chirpId
                  /\ c.id \notin {x.id : x \in chirps}
                  /\ c.userId = last'.cred.sub
     /\ \A c \in chirps : \A d \in chirps' : c.id = d.id => d.userId = c.userId
     /\ \A r \in inflight \ inflight' :
          (r.kind = "deleteChirp" /\ chirps' # chirps)
            => \A c \in chirps \ chirps' : c.userId = r.header.cred.sub]_vars

\* the second user created a chirp and the first user's DELETE of it was
\* answered 403
C29_Witness_CreatorKeepsChirp ==
  /\ last.kind = "deleteChirp" /\ last.status = 403
  /\ last.cred.sub = "u1"
  /\ \E c \in chirps :
       /\ c.id = last.chirpId
       /\ c \notin SeedChirps
       /\ c.userId = "u2"

\* a header "Bearer <token>" whose token is signed with the configured
\* secret and not expired
GoodBearer(h) ==
  /\ h.text = <<"Bearer", " ", "CRED">>
  /\ h.cred.kind = "jwt" /\ h.cred.key = config.jwtSecret
  /\ ~InvalidField(h.cred.sub)
  /\ (now \div TicksPerSecond) < h.cred.exp

NextTier ==
  \/ Tick
  \/ middlewareMetricsInc
  \/ handlerCreateUser
  \/ handlerUpdateUser
  \/ handlerLogin
  \/ handlerLoginInsert
  \/ handlerRefresh
  \/ handlerRevoke
  \/ handlerCreateChirp
  \/ handlerGetChirp
  \/ handlerDeleteChirp
  \/ handlerDeleteChirpDelete
  \/ handlerPolkaWebhook
  \/ handlerReset
  \/ handlerResetChirps
  \/ handlerResetUsers

InitTier == Init /\ deploy.build = 3
SpecTier == InitTier /\ [][NextTier]_vars

\* the ids of the stored users whose tier flag is true
ChirpyRed == {u.id : u \in {x \in users : x.isChirpyRed}}

\* C31: the tier flag of a user becomes true only in a step that answers
\* 204 to a webhook carrying the configured key, with event "user.upgraded"
\* and the id of that user; a flag that is true is lost only in a step of
\* the administrative reset, which deletes the user; a step that answers a
\* login, refresh, revoke, update-credentials or chirp request leaves the
\* set of upgraded users as it was.
C31_TierFlagLifecycle ==
  [][/\ \A id \in ChirpyRed' \ ChirpyRed :
          /\ AnsweredAtOnce("webhook") /\ last'.status = 204
          /\ CarriesKey(last'.header)
          /\ last'.body.json
          /\ last'.body.event = "user.upgraded"
          /\ last'.body.userId = id
     /\ \A id \in ChirpyRed \ ChirpyRed' :
          /\ ResetStep
          /\ ~\E u \in users' : u.id = id
     /\ (\E kind \in {"login", "refresh", "revoke", "updateUser",
                      "createChirp", "getChirp", "deleteChirp"} : Answered(kind))
          => ChirpyRed' = ChirpyRed]_vars

\* an upgraded user has changed email and password with 200 and is still
\* upgraded
C31_Witness_UpgradedUserUpdated ==
  /\ last.kind = "updateUser" /\ last.status = 200
  /\ \E u \in users :
       /\ u.id = last.cred.sub
       /\ u.isChirpyRed
       /\ u.updatedAt = now

====
